---------------------------- MODULE Spec2Model ----------------------------
(***************************************************************************)
(* A model of aplbrain/osc-data-processing: the index builder              *)
(* (create_index.py) and the index query engine (index.py).                *)
(*                                                                         *)
(* Text is modelled as a sequence of tokens (one-character strings and     *)
(* whole words), so that joining with a separator, splitting, formatting   *)
(* and parsing are real operations on sequences.                           *)
(*                                                                         *)
(* A table cell is a pair <<kind, value>>: <<"int", n>> or <<"str", text>>. *)
(* A call's outcome is <<"ok", value>> or <<"raise", exception name>>.     *)
(* A call record keeps, in `before`, the table the call was made on.       *)
(***************************************************************************)
EXTENDS Integers, Sequences, FiniteSets, Bags, TLC

VARIABLES
    index,      \* COCOIndex._index: [columns, rows], the loaded table
    call,       \* the call in progress on the COCOIndex and what it returns
    build,      \* the builder's locals: category_ids, sep and the header written
    row_call,   \* the create_index_row call in progress: arguments, row list, result
    input,      \* the arguments of a build: categories, annotations_by_filename, sep
    seq,        \* create_index_sequentially: position, locals and the file written
    par,        \* create_index_multiprocessing: position, pool, and the file written
    loaded,     \* the table as COCOIndex.load returned it (kept for reference)
    cli         \* a command-line run: its arguments, position and the file system

idxVars == <<index, call, loaded>>
rowVars == <<build, row_call>>
buildVars == <<input, seq, par, cli>>
vars == <<index, call, build, row_call, input, seq, par, loaded, cli>>

-----------------------------------------------------------------------------
(* Bounds of the model *)

MaxRows == 2        \* rows of a table of the query engine
MaxCount == 2       \* largest NumInstances_<c> cell of such a table
MaxAnns == 3        \* annotations of one image
MaxImages == 2      \* images of one build
NumWorkers == 2     \* processes of the pool (the number of CPUs)

-----------------------------------------------------------------------------
(* Outcomes, cells and text *)

Ok(v) == <<"ok", v>>
Raise(e) == <<"raise", e>>
IsOk(r) == r[1] = "ok"

IntCell(n) == <<"int", n>>
StrCell(t) == <<"str", t>>

Digit == <<"0", "1", "2", "3", "4", "5", "6", "7", "8", "9">>

\* str(n) of a non-negative Python int: its decimal digits
RECURSIVE StrInt(_)
StrInt(n) ==
    IF n < 10 THEN <<Digit[n + 1]>>
    ELSE StrInt(n \div 10) \o <<Digit[(n % 10) + 1]>>

\* text.split(sep)
RECURSIVE Split(_, _)
Split(text, sep) ==
    IF \A k \in 1..Len(text) : text[k] # sep THEN <<text>>
    ELSE LET k == CHOOSE i \in 1..Len(text) :
                    text[i] = sep /\ \A h \in 1..(i - 1) : text[h] # sep
         IN  <<SubSeq(text, 1, k - 1)>> \o Split(SubSeq(text, k + 1, Len(text)), sep)

\* int(text) of a text of digits
RECURSIVE ParseInt(_)
ParseInt(text) ==
    LET d == CHOOSE n \in 0..9 : Digit[n + 1] = text[Len(text)]
    IN  IF Len(text) = 1 THEN d ELSE 10 * ParseInt(SubSeq(text, 1, Len(text) - 1)) + d

\* whether the text is one of digits
IsDigits(text) ==
    text # <<>> /\ \A k \in 1..Len(text) : \E n \in 1..10 : Digit[n] = text[k]

SeqsUpTo(S, n) == UNION {[1..k -> S] : k \in 0..n}

-----------------------------------------------------------------------------
(* index.py: COCOIndex *)

\* f'NumInstances_{class_id}'
NumInstancesColumn(class_id) == <<"NumInstances", "_">> \o StrInt(class_id)

ImageIDColumn == <<"ImageID">>

\* self._index = None: no table
NoIndex == [columns |-> <<>>, rows |-> <<>>]

HasColumn(idx, name) == \E k \in 1..Len(idx.columns) : idx.columns[k] = name

\* position of the column called `name`
ColumnPos(idx, name) == CHOOSE k \in 1..Len(idx.columns) : idx.columns[k] = name

\* self._index[name] / self._index.ImageID: the column as a series, one cell per row
Column(idx, name) == [r \in 1..Len(idx.rows) |-> idx.rows[r][ColumnPos(idx, name)]]

\* self._index[selector]: the rows where the boolean series is True, in order
RECURSIVE SelectRows(_, _)
SelectRows(rows, selector) ==
    IF rows = <<>> THEN <<>>
    ELSE LET rest == SelectRows(Tail(rows), [r \in 1..(Len(rows) - 1) |-> selector[r + 1]])
         IN  IF selector[1] THEN <<Head(rows)>> \o rest ELSE rest

\* mutant: the selection keeps the ImageID column only
Filter_ImageIDOnly(idx, selector) ==
    [columns |-> <<idx.columns[1]>>,
     rows |-> [r \in 1..Len(SelectRows(idx.rows, selector)) |->
                    <<SelectRows(idx.rows, selector)[r][1]>>]]

Filter(idx, selector) == [columns |-> idx.columns, rows |-> SelectRows(idx.rows, selector)]

\* set(series)
SetOf(series) == {series[r] : r \in DOMAIN series}

\* self._index.ImageID != ''
true_selector(idx) == [r \in 1..Len(idx.rows) |-> Column(idx, ImageIDColumn)[r] # StrCell(<<>>)]

\* mutant: the accumulator of the OR starts all True
false_selector_AllTrue(idx) == [r \in 1..Len(idx.rows) |-> TRUE]

\* self._index.ImageID == ''
false_selector(idx) == [r \in 1..Len(idx.rows) |-> Column(idx, ImageIDColumn)[r] = StrCell(<<>>)]

\* mutant: the selection is assigned to self._index, as keep does
index_after_select_Assigned(idx, selector) == Filter(idx, selector)

\* self._index after self._index[selector] was evaluated: indexing by a boolean
\* series builds a new frame, and no query assigns to self._index
index_after_select(idx, selector) == idx

\* set(self._index.ImageID)
get_images(idx) ==
    IF ~HasColumn(idx, ImageIDColumn) THEN Raise("AttributeError")
    ELSE Ok(SetOf(Column(idx, ImageIDColumn)))

\* the loop of get_images_with_classes: selector |= self._index[...] > 0
RECURSIVE ClassesSelector(_, _, _)
ClassesSelector(idx, classes, selector) ==
    IF classes = <<>> THEN selector
    ELSE LET col == Column(idx, NumInstancesColumn(Head(classes)))
         IN  ClassesSelector(idx, Tail(classes),
                             [r \in DOMAIN selector |-> selector[r] \/ col[r][2] > 0])

get_images_with_classes(idx, classes) ==
    IF ~HasColumn(idx, ImageIDColumn) THEN Raise("AttributeError")
    ELSE IF \E k \in 1..Len(classes) : ~HasColumn(idx, NumInstancesColumn(classes[k]))
    THEN Raise("KeyError")
    ELSE Ok(SetOf(Column(Filter(idx, ClassesSelector(idx, classes, false_selector(idx))),
                         ImageIDColumn)))

\* mutant: the upper bound is inclusive
RECURSIVE BoundedSelector_Closed(_, _, _, _, _)
BoundedSelector_Closed(idx, classes, lower, upper, selector) ==
    IF classes = <<>> THEN selector
    ELSE LET col == Column(idx, NumInstancesColumn(Head(classes)))
             s1 == IF lower # <<>>
                   THEN [r \in DOMAIN selector |-> selector[r] /\ col[r][2] >= lower[1]]
                   ELSE selector
             s2 == IF upper # <<>>
                   THEN [r \in DOMAIN selector |-> s1[r] /\ col[r][2] <= upper[1]]
                   ELSE s1
         IN  BoundedSelector_Closed(idx, Tail(classes), lower, upper, s2)

\* the loop of get_images_with_bounded_num_instances; an absent bound is <<>>,
\* a given one <<n>>
RECURSIVE BoundedSelector(_, _, _, _, _)
BoundedSelector(idx, classes, lower, upper, selector) ==
    IF classes = <<>> THEN selector
    ELSE LET col == Column(idx, NumInstancesColumn(Head(classes)))
             s1 == IF lower # <<>>
                   THEN [r \in DOMAIN selector |-> selector[r] /\ col[r][2] >= lower[1]]
                   ELSE selector
             s2 == IF upper # <<>>
                   THEN [r \in DOMAIN selector |-> s1[r] /\ col[r][2] < upper[1]]
                   ELSE s1
         IN  BoundedSelector(idx, Tail(classes), lower, upper, s2)

get_images_with_bounded_num_instances(idx, classes, lower, upper) ==
    IF ~HasColumn(idx, ImageIDColumn) THEN Raise("AttributeError")
    ELSE IF /\ lower # <<>> \/ upper # <<>>      \* the table is only indexed under a bound
       /\ \E k \in 1..Len(classes) : ~HasColumn(idx, NumInstancesColumn(classes[k]))
    THEN Raise("KeyError")
    ELSE Ok(SetOf(Column(Filter(idx, BoundedSelector(idx, classes, lower, upper,
                                                     true_selector(idx))),
                         ImageIDColumn)))

\* self._index.ImageID.isin(image_ids)
isin(idx, image_ids) == [r \in 1..Len(idx.rows) |-> Column(idx, ImageIDColumn)[r] \in image_ids]

keep(idx, image_ids) == Filter(idx, isin(idx, image_ids))

\* mutant: the negation of the mask is lost
remove_NoNegation(idx, image_ids) == Filter(idx, isin(idx, image_ids))

remove(idx, image_ids) ==
    Filter(idx, [r \in 1..Len(idx.rows) |-> ~isin(idx, image_ids)[r]])

\* 'NumInstances_' in c
HasNumInstancesPrefix(c) ==
    \E k \in 1..(Len(c) - 1) : c[k] = "NumInstances" /\ c[k + 1] = "_"

\* c.split('_')[1]
class_text(c) == Split(c, "_")[2]

\* whether int(c.split('_')[1]) raises ValueError: the text is not one of digits
IntRaises(c) == ~IsDigits(class_text(c))

\* set(int(c.split('_')[1]) for c in self._index.columns if 'NumInstances_' in c)
get_classes(idx) ==
    IF idx = NoIndex THEN Raise("AttributeError")
    ELSE LET named == {k \in 1..Len(idx.columns) : HasNumInstancesPrefix(idx.columns[k])}
         IN  IF \E k \in named : IntRaises(idx.columns[k]) THEN Raise("ValueError")
             ELSE Ok({ParseInt(class_text(idx.columns[k])) : k \in named})

-----------------------------------------------------------------------------
(* The query engine as a state machine: any table, then any sequence of calls. *)
(* A call is made when no call is in progress, and Return hands its result to  *)
(* the caller.                                                                 *)

IndexClasses == {1, 2}          \* the classes the tables have columns for
ArgClasses == {1, 2, 3}         \* class ids a caller passes; 3 is no column
TableIds == {StrCell(<<"a">>), StrCell(<<"b">>)}
ArgIds == TableIds \cup {StrCell(<<"z">>)}

IndexColumns == <<ImageIDColumn, NumInstancesColumn(1), NumInstancesColumn(2)>>

IndexRows ==
    {<<i, IntCell(n1), IntCell(n2)>> : i \in TableIds, n1 \in 0..MaxCount, n2 \in {0, 1}}

Tables == {[columns |-> IndexColumns, rows |-> rs] : rs \in SeqsUpTo(IndexRows, MaxRows)}

\* lists of distinct class ids
ClassLists ==
    {cs \in SeqsUpTo(ArgClasses, Cardinality(ArgClasses)) :
        \A i, j \in 1..Len(cs) : i # j => cs[i] # cs[j]}

OptBounds == {<<>>} \cup {<<n>> : n \in 1..MaxCount}

NoCall == [op |-> "none"]
NoBuild == [pc |-> "none"]
NoRowCall == [pc |-> "none"]
NoInput == [sep |-> ","]
NoRun == [pc |-> "none"]
NoMain == [pc |-> "none"]

InitIndex ==
    /\ index \in Tables
    /\ call = NoCall
    /\ build = NoBuild
    /\ row_call = NoRowCall
    /\ input = NoInput
    /\ seq = NoRun
    /\ par = NoRun
    /\ loaded = NoIndex
    /\ cli = NoMain

GetImages ==
    /\ call = NoCall
    /\ call' = [op |-> "get_images", args |-> <<>>, before |-> index,
                ret |-> get_images(index)]
    /\ UNCHANGED <<index, loaded, rowVars, buildVars>>

GetImagesWithClasses ==
    \E classes \in ClassLists :
        /\ call = NoCall
        /\ call' = [op |-> "get_images_with_classes", args |-> <<classes>>, before |-> index,
                    ret |-> get_images_with_classes(index, classes)]
        /\ index' = IF IsOk(get_images_with_classes(index, classes))
                     THEN index_after_select(index,
                              ClassesSelector(index, classes, false_selector(index)))
                     ELSE index
        /\ UNCHANGED <<loaded, rowVars, buildVars>>

GetImagesWithBoundedNumInstances ==
    \E classes \in ClassLists, lower \in OptBounds, upper \in OptBounds :
        /\ call = NoCall
        /\ call' = [op |-> "get_images_with_bounded_num_instances",
                    args |-> <<classes, lower, upper>>, before |-> index,
                    ret |-> get_images_with_bounded_num_instances(index, classes, lower, upper)]
        /\ index' = IF IsOk(get_images_with_bounded_num_instances(index, classes, lower, upper))
                     THEN index_after_select(index,
                              BoundedSelector(index, classes, lower, upper, true_selector(index)))
                     ELSE index
        /\ UNCHANGED <<loaded, rowVars, buildVars>>

Keep ==
    \E image_ids \in SUBSET ArgIds :
        /\ call = NoCall
        /\ index' = keep(index, image_ids)
        /\ call' = [op |-> "keep", args |-> <<image_ids>>, before |-> index, ret |-> Ok(<<>>)]
        /\ UNCHANGED <<loaded, rowVars, buildVars>>

Remove ==
    \E image_ids \in SUBSET ArgIds :
        /\ call = NoCall
        /\ index' = remove(index, image_ids)
        /\ call' = [op |-> "remove", args |-> <<image_ids>>, before |-> index, ret |-> Ok(<<>>)]
        /\ UNCHANGED <<loaded, rowVars, buildVars>>

GetClasses ==
    /\ call = NoCall
    /\ call' = [op |-> "get_classes", args |-> <<>>, before |-> index,
                ret |-> get_classes(index)]
    /\ UNCHANGED <<index, loaded, rowVars, buildVars>>

\* the call returns to its caller
Return ==
    /\ call # NoCall
    /\ call' = NoCall
    /\ UNCHANGED <<index, loaded, rowVars, buildVars>>

NextIndex ==
    \/ GetImages
    \/ GetImagesWithClasses
    \/ GetImagesWithBoundedNumInstances
    \/ Keep
    \/ Remove
    \/ GetClasses
    \/ Return

SpecIndex == InitIndex /\ [][NextIndex]_vars

\* a session: the table is loaded, then any sequence of calls is made on it
InitSession ==
    /\ index \in Tables
    /\ loaded = index
    /\ call = NoCall
    /\ build = NoBuild
    /\ row_call = NoRowCall
    /\ input = NoInput
    /\ seq = NoRun
    /\ par = NoRun
    /\ cli = NoMain

SpecSession == InitSession /\ [][NextIndex]_vars

-----------------------------------------------------------------------------
(* Claims about the query engine, checked under SpecIndex *)

\* the NumInstances_<c> cell of row r of table idx
Count(idx, r, c) == idx.rows[r][ColumnPos(idx, NumInstancesColumn(c))][2]

ImageIDOf(idx, r) == idx.rows[r][ColumnPos(idx, ImageIDColumn)]

AllColumns(idx, classes) ==
    \A k \in 1..Len(classes) : HasColumn(idx, NumInstancesColumn(classes[k]))

\* C1: get_images_with_classes(classes), for classes that are columns of the table,
\* returns exactly the ImageIDs of the rows with NumInstances_c > 0 for at least one
\* c in classes; the empty set for an empty list.
C1_ImagesWithClassesIsUnion ==
    (call.op = "get_images_with_classes" /\ AllColumns(index, call.args[1])) =>
        LET classes == call.args[1]
        IN  call.ret = Ok({ImageIDOf(index, r) : r \in
                {r \in 1..Len(index.rows) :
                    \E k \in 1..Len(classes) : Count(index, r, classes[k]) > 0}})

\* a query over two classes that selects some rows and leaves some out
C1_Witness ==
    /\ call.op = "get_images_with_classes"
    /\ Len(call.args[1]) = 2
    /\ IsOk(call.ret)
    /\ call.ret[2] # {}
    /\ call.ret[2] # get_images(index)[2]

\* a query with no class at all, on a table that has images
C1_WitnessEmpty ==
    /\ call.op = "get_images_with_classes"
    /\ call.args[1] = <<>>
    /\ index.rows # <<>>

\* the rows of idx that satisfy the bounds for every class of the list
BoundedRows(idx, classes, lower, upper) ==
    {r \in 1..Len(idx.rows) :
        \A k \in 1..Len(classes) :
            /\ lower # <<>> => lower[1] <= Count(idx, r, classes[k])
            /\ upper # <<>> => Count(idx, r, classes[k]) < upper[1]}

\* C2 as stated: for any list of class ids and any optional bounds the call returns
\* the ImageIDs of the rows with lower <= NumInstances_c < upper for every c.
C2_Original ==
    call.op = "get_images_with_bounded_num_instances" =>
        /\ IsOk(call.ret)
        /\ call.ret[2] = {ImageIDOf(index, r) : r \in
                BoundedRows(index, call.args[1], call.args[2], call.args[3])}

\* C2 amended: when every class id of the list is a column of the table, or no bound
\* is given, the call returns the ImageIDs of the rows with
\* lower <= NumInstances_c < upper for every c (half-open, an absent bound does not
\* constrain, AND over the classes, every image for an empty list); with a bound
\* given and a class id that is no column it raises KeyError.
C2_BoundedIsIntersection ==
    call.op = "get_images_with_bounded_num_instances" =>
        LET classes == call.args[1]
            lower == call.args[2]
            upper == call.args[3]
        IN  IF AllColumns(index, classes) \/ (lower = <<>> /\ upper = <<>>)
            THEN call.ret = Ok({ImageIDOf(index, r) : r \in
                                BoundedRows(index, classes, lower, upper)})
            ELSE call.ret = Raise("KeyError")

\* both bounds given, two classes, a row whose count equals the upper bound is
\* left out and another row is selected
C2_Witness ==
    /\ call.op = "get_images_with_bounded_num_instances"
    /\ Len(call.args[1]) = 2
    /\ call.args[2] # <<>>
    /\ call.args[3] # <<>>
    /\ IsOk(call.ret)
    /\ call.ret[2] # {}
    /\ \E r \in 1..Len(index.rows) :
          /\ Count(index, r, call.args[1][1]) = call.args[3][1]
          /\ ImageIDOf(index, r) \notin call.ret[2]

\* C3: keep(S) followed by get_images() gives S \cap I and remove(S) followed by
\* get_images() gives I \ S, where I is the image set before the call; S may hold
\* ids that are not in the table.
C3_KeepRemoveImages ==
    /\ call.op = "keep" =>
          get_images(index) = Ok(call.args[1] \cap get_images(call.before)[2])
    /\ call.op = "remove" =>
          get_images(index) = Ok(get_images(call.before)[2] \ call.args[1])

\* a remove of a set holding an id of the table and an id that is not in it,
\* from a table with two different images
C3_Witness ==
    /\ call.op = "remove"
    /\ StrCell(<<"z">>) \in call.args[1]
    /\ Cardinality(get_images(call.before)[2]) = 2
    /\ Cardinality(get_images(index)[2]) = 1

\* the result the call recorded in c gives when it is made on the table idx
Requery(idx, c) ==
    CASE c.op = "get_images" -> get_images(idx)
      [] c.op = "get_classes" -> get_classes(idx)
      [] c.op = "get_images_with_classes" -> get_images_with_classes(idx, c.args[1])
      [] c.op = "get_images_with_bounded_num_instances" ->
            get_images_with_bounded_num_instances(idx, c.args[1], c.args[2], c.args[3])

QueryOps ==
    {"get_images", "get_classes", "get_images_with_classes",
     "get_images_with_bounded_num_instances"}

\* C15: each of the four queries leaves the table as it was (rows, cells and
\* columns), so the same query made again gives the same result.
C15_QueriesLeaveTable ==
    call.op \in QueryOps =>
        /\ index = call.before
        /\ Requery(index, call) = call.ret

\* a bounded query that selected one of two rows of the table
C15_Witness ==
    /\ call.op = "get_images_with_bounded_num_instances"
    /\ IsOk(call.ret)
    /\ Len(index.rows) = 2
    /\ Cardinality(call.ret[2]) = 1
    /\ Cardinality(get_images(index)[2]) = 2

\* C18: after load and any sequence of keep, remove and query calls, the images of
\* the table are among those loaded, no call adds an image, get_classes() is what it
\* was at load, and every remaining row is a row of the loaded table, cell by cell.
C18_OnlyShrinks ==
    /\ index.columns = loaded.columns
    /\ get_images(index)[2] \subseteq get_images(loaded)[2]
    /\ call # NoCall => get_images(index)[2] \subseteq get_images(call.before)[2]
    /\ get_classes(index) = get_classes(loaded)
    /\ \A r \in 1..Len(index.rows) : \E q \in 1..Len(loaded.rows) :
          index.rows[r] = loaded.rows[q]

\* a query made after calls that dropped one of the two rows loaded
C18_Witness ==
    /\ call.op = "get_classes"
    /\ Len(loaded.rows) = 2
    /\ Len(index.rows) = 1
    /\ call.ret = Ok({1, 2})

-----------------------------------------------------------------------------
(* create_index.py: numbers and their text.                                *)
(* A number is <<"i", n>> (an int, Python's or numpy's), <<"f", a, b>> (a  *)
(* float, the rational a/b in lowest terms) or <<"r", a, b>> (a float, the *)
(* square root of a/b in lowest terms); <<"s", text>> is a string. Floats  *)
(* are exact here: rounding is not modelled. The text of a float is not    *)
(* its decimal expansion but the exact value written with digits and the   *)
(* marks "/" and "sqrt".                                                   *)

RECURSIVE Gcd(_, _)
Gcd(a, b) == IF b = 0 THEN a ELSE Gcd(b, a % b)

IntVal(n) == <<"i", n>>
FloatVal(a, b) == <<"f", a \div Gcd(a, b), b \div Gcd(a, b)>>
RootVal(a, b) == <<"r", a \div Gcd(a, b), b \div Gcd(a, b)>>
StrVal(t) == <<"s", t>>

\* v < w, for two numbers of the same kind
Less(v, w) == IF v[1] = "i" THEN v[2] < w[2] ELSE v[2] * w[3] < w[2] * v[3]

\* str(v), as map(str, row) applies it
StrValue(v) ==
    CASE v[1] = "s" -> v[2]
      [] v[1] = "i" -> StrInt(v[2])
      [] v[1] = "f" -> StrInt(v[2]) \o <<"/">> \o StrInt(v[3])
      [] v[1] = "r" -> <<"sqrt">> \o StrInt(v[2]) \o <<"/">> \o StrInt(v[3])

\* sep.join(texts)
RECURSIVE Join(_, _)
Join(texts, sep) ==
    IF texts = <<>> THEN <<>>
    ELSE IF Len(texts) = 1 THEN texts[1]
    ELSE texts[1] \o <<sep>> \o Join(Tail(texts), sep)

\* os.path.splitext(filename)[0]: the name up to its last dot, unless only dots
\* precede that dot (directories are not modelled)
splitext_root(filename) ==
    LET dots == {k \in 1..Len(filename) : filename[k] = "."}
        last == CHOOSE k \in dots : \A j \in dots : j <= k
    IN  IF dots = {} \/ \A j \in 1..(last - 1) : filename[j] = "."
        THEN filename
        ELSE SubSeq(filename, 1, last - 1)

-----------------------------------------------------------------------------
(* create_index.py: numpy reductions over a non-empty array of ints *)

RECURSIVE SumSeq(_)
SumSeq(a) == IF a = <<>> THEN 0 ELSE Head(a) + SumSeq(Tail(a))

RECURSIVE SumSq(_)
SumSq(a) == IF a = <<>> THEN 0 ELSE Head(a) * Head(a) + SumSq(Tail(a))

np_sum(a) == IntVal(SumSeq(a))
np_min(a) == IntVal(CHOOSE x \in {a[k] : k \in 1..Len(a)} : \A k \in 1..Len(a) : x <= a[k])
np_max(a) == IntVal(CHOOSE x \in {a[k] : k \in 1..Len(a)} : \A k \in 1..Len(a) : x >= a[k])
np_mean(a) == FloatVal(SumSeq(a), Len(a))
\* population standard deviation: sqrt(mean(x^2) - mean(x)^2)
np_std(a) == RootVal(Len(a) * SumSq(a) - SumSeq(a) * SumSeq(a), Len(a) * Len(a))

\* Python's max(...) and min(...) over a non-empty sequence of keys: the position
\* of the first maximal (minimal) key
RECURSIVE MaxScan(_, _, _)
MaxScan(keys, k, best) ==
    IF k > Len(keys) THEN best
    ELSE MaxScan(keys, k + 1, IF Less(keys[best], keys[k]) THEN k ELSE best)

RECURSIVE MinScan(_, _, _)
MinScan(keys, k, best) ==
    IF k > Len(keys) THEN best
    ELSE MinScan(keys, k + 1, IF Less(keys[k], keys[best]) THEN k ELSE best)

py_max_pos(keys) == MaxScan(keys, 2, 1)
py_min_pos(keys) == MinScan(keys, 2, 1)

\* mutant: the position of the maximal key is returned (an argmax), not the item
py_max_by_Argmax(items, keys) == py_max_pos(keys)

\* max(items, key=...) and min(items, key=...): the item of the first maximal
\* (minimal) key, keys[k] being the key of items[k]
py_max_by(items, keys) == items[py_max_pos(keys)]
py_min_by(items, keys) == items[py_min_pos(keys)]

-----------------------------------------------------------------------------
(* create_index.py: create_header_row *)

GlobalColumns ==
    << <<"ImageID">>, <<"NumInstances">>, <<"NumCategories">>,
       <<"TotalArea">>, <<"MinArea">>, <<"MeanArea">>, <<"MaxArea">>, <<"StdevArea">>,
       <<"MeanX">>, <<"MeanY">>, <<"StdevX">>, <<"StdevY">>,
       <<"Highest", "_", "NumInstances">>, <<"Highest", "_", "TotalArea">>,
       <<"Highest", "_", "MinArea">>, <<"Highest", "_", "MeanArea">>,
       <<"Highest", "_", "MaxArea">>, <<"Highest", "_", "StdevArea">>,
       <<"Lowest", "_", "NumInstances">>, <<"Lowest", "_", "TotalArea">>,
       <<"Lowest", "_", "MinArea">>, <<"Lowest", "_", "MeanArea">>,
       <<"Lowest", "_", "MaxArea">>, <<"Lowest", "_", "StdevArea">>,
       <<"CategoryOf", "_", "Highest", "_", "NumInstances">>,
       <<"CategoryOf", "_", "Highest", "_", "TotalArea">>,
       <<"CategoryOf", "_", "Highest", "_", "MinArea">>,
       <<"CategoryOf", "_", "Highest", "_", "MeanArea">>,
       <<"CategoryOf", "_", "Highest", "_", "MaxArea">>,
       <<"CategoryOf", "_", "Highest", "_", "StdevArea">>,
       <<"CategoryOf", "_", "Lowest", "_", "NumInstances">>,
       <<"CategoryOf", "_", "Lowest", "_", "TotalArea">>,
       <<"CategoryOf", "_", "Lowest", "_", "MinArea">>,
       <<"CategoryOf", "_", "Lowest", "_", "MeanArea">>,
       <<"CategoryOf", "_", "Lowest", "_", "MaxArea">>,
       <<"CategoryOf", "_", "Lowest", "_", "StdevArea">> >>

CategoryColumns(category_id) ==
    << <<"NumInstances", "_">> \o StrInt(category_id),
       <<"TotalArea", "_">> \o StrInt(category_id),
       <<"MinArea", "_">> \o StrInt(category_id),
       <<"MeanArea", "_">> \o StrInt(category_id),
       <<"MaxArea", "_">> \o StrInt(category_id),
       <<"StdevArea", "_">> \o StrInt(category_id),
       <<"MeanX", "_">> \o StrInt(category_id),
       <<"MeanY", "_">> \o StrInt(category_id),
       <<"StdevX", "_">> \o StrInt(category_id),
       <<"StdevY", "_">> \o StrInt(category_id) >>

RECURSIVE header_columns(_)
header_columns(category_ids) ==
    IF category_ids = <<>> THEN GlobalColumns
    ELSE header_columns(SubSeq(category_ids, 1, Len(category_ids) - 1))
            \o CategoryColumns(category_ids[Len(category_ids)])

create_header_row(category_ids, sep) == Join(header_columns(category_ids), sep)

-----------------------------------------------------------------------------
(* create_index.py: create_index_row *)

\* mutant: the group is assigned, not appended to, so it keeps one annotation
annotations_by_cid_Assigned(annotations, cid) ==
    LET group == SelectSeq(annotations, LAMBDA a : a.category_id = cid)
    IN  IF group = <<>> THEN <<>> ELSE <<group[Len(group)]>>

\* annotations_by_cid[cid]
annotations_by_cid(annotations, cid) == SelectSeq(annotations, LAMBDA a : a.category_id = cid)

areas_of(annotations) == [k \in 1..Len(annotations) |-> annotations[k].area]
xs_of(annotations) == [k \in 1..Len(annotations) |-> annotations[k].bbox[1]]
ys_of(annotations) == [k \in 1..Len(annotations) |-> annotations[k].bbox[2]]

\* [cid for cid in category_ids if len(annotations_by_cid[cid]) > 0]
nonempty_category_ids(category_ids, annotations) ==
    SelectSeq(category_ids, LAMBDA cid : Len(annotations_by_cid(annotations, cid)) > 0)

\* mutant: the mean of the areas is taken without the guard; numpy's mean of an
\* empty array is nan
category_block_UnguardedMean(annotations, cid) ==
    LET category_annotations == annotations_by_cid(annotations, cid)
        category_areas == areas_of(category_annotations)
        n == Len(category_annotations)
    IN  << IntVal(n),
           IF n > 0 THEN np_sum(category_areas) ELSE IntVal(0),
           IF n > 0 THEN np_min(category_areas) ELSE IntVal(0),
           IF n > 0 THEN np_mean(category_areas) ELSE <<"f", 0, 0>>,
           IF n > 0 THEN np_max(category_areas) ELSE IntVal(0),
           IF n > 0 THEN np_std(category_areas) ELSE IntVal(0),
           IF n > 0 THEN np_mean(xs_of(category_annotations)) ELSE IntVal(0),
           IF n > 0 THEN np_mean(ys_of(category_annotations)) ELSE IntVal(0),
           IF n > 0 THEN np_std(xs_of(category_annotations)) ELSE IntVal(0),
           IF n > 0 THEN np_std(ys_of(category_annotations)) ELSE IntVal(0) >>

\* the ten fields appended for one category
category_block(annotations, cid) ==
    LET category_annotations == annotations_by_cid(annotations, cid)
        category_areas == areas_of(category_annotations)
        n == Len(category_annotations)
    IN  << IntVal(n),
           IF n > 0 THEN np_sum(category_areas) ELSE IntVal(0),
           IF n > 0 THEN np_min(category_areas) ELSE IntVal(0),
           IF n > 0 THEN np_mean(category_areas) ELSE IntVal(0),
           IF n > 0 THEN np_max(category_areas) ELSE IntVal(0),
           IF n > 0 THEN np_std(category_areas) ELSE IntVal(0),
           IF n > 0 THEN np_mean(xs_of(category_annotations)) ELSE IntVal(0),
           IF n > 0 THEN np_mean(ys_of(category_annotations)) ELSE IntVal(0),
           IF n > 0 THEN np_std(xs_of(category_annotations)) ELSE IntVal(0),
           IF n > 0 THEN np_std(ys_of(category_annotations)) ELSE IntVal(0) >>

\* for cid in category_ids: row.append(...)
RECURSIVE category_blocks(_, _)
category_blocks(annotations, category_ids) ==
    IF category_ids = <<>> THEN <<>>
    ELSE category_block(annotations, Head(category_ids))
            \o category_blocks(annotations, Tail(category_ids))

\* the first 36 entries of the list `row`, for an image with at least one annotation
\* of a known category
global_fields(category_ids, filename, annotations) ==
    LET areas == areas_of(annotations)
        nonempty == nonempty_category_ids(category_ids, annotations)
        by(k) == annotations_by_cid(annotations, nonempty[k])
        lens == [k \in 1..Len(nonempty) |-> IntVal(Len(by(k)))]
        sums == [k \in 1..Len(nonempty) |-> np_sum(areas_of(by(k)))]
        mins == [k \in 1..Len(nonempty) |-> np_min(areas_of(by(k)))]
        means == [k \in 1..Len(nonempty) |-> np_mean(areas_of(by(k)))]
        maxs == [k \in 1..Len(nonempty) |-> np_max(areas_of(by(k)))]
        stds == [k \in 1..Len(nonempty) |-> np_std(areas_of(by(k)))]
    IN  << StrVal(splitext_root(filename)),
           IntVal(Len(annotations)),
           IntVal(Len(nonempty)),
           np_sum(areas), np_min(areas), np_mean(areas), np_max(areas), np_std(areas),
           np_mean(xs_of(annotations)), np_mean(ys_of(annotations)),
           np_std(xs_of(annotations)), np_std(ys_of(annotations)),
           lens[py_max_pos(lens)], sums[py_max_pos(sums)], mins[py_max_pos(mins)],
           means[py_max_pos(means)], maxs[py_max_pos(maxs)], stds[py_max_pos(stds)],
           lens[py_min_pos(lens)], sums[py_min_pos(sums)], mins[py_min_pos(mins)],
           means[py_min_pos(means)], maxs[py_min_pos(maxs)], stds[py_min_pos(stds)],
           IntVal(py_max_by(nonempty, lens)), IntVal(py_max_by(nonempty, sums)),
           IntVal(py_max_by(nonempty, mins)), IntVal(py_max_by(nonempty, means)),
           IntVal(py_max_by(nonempty, maxs)), IntVal(py_max_by(nonempty, stds)),
           IntVal(py_min_by(nonempty, lens)), IntVal(py_min_by(nonempty, sums)),
           IntVal(py_min_by(nonempty, mins)), IntVal(py_min_by(nonempty, means)),
           IntVal(py_min_by(nonempty, maxs)), IntVal(py_min_by(nonempty, stds)) >>

\* whether building the list `row` raises: areas.min() of an empty array, or max()
\* of an empty sequence of categories (both ValueError)
row_raises(category_ids, annotations) ==
    annotations = <<>> \/ nonempty_category_ids(category_ids, annotations) = <<>>

\* mutant: the coordinate means are appended in the order y, x
index_row_SwappedXY(category_ids, filename, annotations) ==
    LET g == global_fields(category_ids, filename, annotations)
    IN  [k \in 1..Len(g) |-> IF k = 9 THEN g[10] ELSE IF k = 10 THEN g[9] ELSE g[k]]
            \o category_blocks(annotations, category_ids)

\* the list `row` just before it is joined
index_row(category_ids, filename, annotations) ==
    global_fields(category_ids, filename, annotations)
        \o category_blocks(annotations, category_ids)

\* mutant: no reduction raises on empty input; the row of such an image is its
\* identifier followed by nan
create_index_row_NanRow(category_ids, filename, annotations, sep) ==
    IF row_raises(category_ids, annotations)
    THEN Ok(Join(<<splitext_root(filename), <<"nan">>>>, sep))
    ELSE LET row == index_row(category_ids, filename, annotations)
         IN  Ok(Join([k \in 1..Len(row) |-> StrValue(row[k])], sep))

create_index_row(category_ids, filename, annotations, sep) ==
    IF row_raises(category_ids, annotations) THEN Raise("ValueError")
    ELSE LET row == index_row(category_ids, filename, annotations)
         IN  Ok(Join([k \in 1..Len(row) |-> StrValue(row[k])], sep))

\* mutant: the ids are taken in the order of the categories, unsorted
sorted_Not(ids) == ids

\* sorted(ids)
RECURSIVE sorted(_)
sorted(ids) ==
    IF ids = <<>> THEN <<>>
    ELSE LET m == CHOOSE x \in {ids[k] : k \in 1..Len(ids)} : \A k \in 1..Len(ids) : x <= ids[k]
             p == CHOOSE k \in 1..Len(ids) : ids[k] = m
         IN  <<m>> \o sorted(SubSeq(ids, 1, p - 1) \o SubSeq(ids, p + 1, Len(ids)))

-----------------------------------------------------------------------------
(* The row statistics engine as a state machine: the builder sorts the     *)
(* category ids and makes the header, then calls create_index_row on any   *)
(* image, one call at a time.                                              *)

CatIds == {1, 2, 3}
Seps == {",", ";"}
RowFileNames == { <<"a", ".", "jpg">>, <<"b", ",", "c", ".", "png">> }

\* the categories an adapter returns: any list of distinct ids
CategoryLists ==
    {[k \in DOMAIN cs |-> [id |-> cs[k]]] : cs \in
        {cs \in SeqsUpTo(CatIds, Cardinality(CatIds)) :
            \A i, j \in 1..Len(cs) : i # j => cs[i] # cs[j]}}

\* an annotation: category, area and bbox (x, y, width, height)
Shapes == { [area |-> 1, bbox |-> <<0, 0, 1, 1>>], [area |-> 3, bbox |-> <<1, 4, 1, 1>>] }
Annotations ==
    {[category_id |-> c, area |-> s.area, bbox |-> s.bbox] : c \in CatIds, s \in Shapes}

InitRow ==
    /\ index = NoIndex
    /\ call = NoCall
    /\ build = NoBuild
    /\ row_call = NoRowCall
    /\ input = NoInput
    /\ seq = NoRun
    /\ par = NoRun
    /\ loaded = NoIndex
    /\ cli = NoMain

\* category_ids = sorted([c['id'] for c in categories]); the header is made
CreateHeaderRow ==
    \E categories \in CategoryLists, sep \in Seps :
        /\ build = NoBuild
        /\ LET category_ids == sorted([k \in DOMAIN categories |-> categories[k].id])
           IN  build' = [pc |-> "header", category_ids |-> category_ids, sep |-> sep,
                         header |-> create_header_row(category_ids, sep)]
        /\ UNCHANGED <<idxVars, row_call, buildVars>>

CreateIndexRow ==
    \E filename \in RowFileNames, annotations \in SeqsUpTo(Annotations, MaxAnns) :
        /\ build # NoBuild
        /\ row_call = NoRowCall
        /\ row_call' = [pc |-> "returned", filename |-> filename, annotations |-> annotations,
                        row |-> IF row_raises(build.category_ids, annotations) THEN <<>>
                                ELSE index_row(build.category_ids, filename, annotations),
                        ret |-> create_index_row(build.category_ids, filename, annotations,
                                                 build.sep)]
        /\ UNCHANGED <<idxVars, build, buildVars>>

RowReturn ==
    /\ row_call # NoRowCall
    /\ row_call' = NoRowCall
    /\ UNCHANGED <<idxVars, build, buildVars>>

NextRow ==
    \/ CreateHeaderRow
    \/ CreateIndexRow
    \/ RowReturn

SpecRow == InitRow /\ [][NextRow]_vars

-----------------------------------------------------------------------------
(* Claims about the row statistics engine, checked under SpecRow *)

Returned == row_call # NoRowCall

N == Len(row_call.annotations)

KnownIds == {build.category_ids[k] : k \in 1..Len(build.category_ids)}

\* the annotations of the image that belong to category c
InCategory(c) == {k \in 1..N : row_call.annotations[k].category_id = c}

NonemptyIds == {c \in KnownIds : InCategory(c) # {}}

AllKnown == \A k \in 1..N : row_call.annotations[k].category_id \in KnownIds

\* field j of the block of the k-th category of the list `row`
BlockField(k, j) == row_call.row[36 + 10 * (k - 1) + j]

RECURSIVE SumCounts(_)
SumCounts(k) == IF k = 0 THEN 0 ELSE BlockField(k, 1)[2] + SumCounts(k - 1)

\* C5 as stated: for any image with N >= 1 annotations the row has NumInstances = N
\* and the NumInstances_<c> of the known categories sum to N.
C5_Original ==
    (Returned /\ N >= 1) =>
        /\ IsOk(row_call.ret)
        /\ row_call.row[2] = IntVal(N)
        /\ SumCounts(Len(build.category_ids)) = N

\* C5 amended: for any image with N >= 1 annotations, each of a known category, the
\* row has NumInstances = N and the NumInstances_<c> of the known categories sum to N.
C5_CountsSumToN ==
    (Returned /\ N >= 1 /\ AllKnown) =>
        /\ IsOk(row_call.ret)
        /\ row_call.row[2] = IntVal(N)
        /\ SumCounts(Len(build.category_ids)) = N

\* three annotations in two of three known categories
C5_Witness ==
    /\ Returned
    /\ N = 3
    /\ AllKnown
    /\ Len(build.category_ids) = 3
    /\ Cardinality(NonemptyIds) = 2
    /\ IsOk(row_call.ret)

\* C6: for a known category with no annotation in the image the block is present and
\* its ten fields are 0; the row is computed without error whenever some annotation
\* of the image has a known category.
C6_AbsentCategoryIsZero ==
    (Returned /\ NonemptyIds # {}) =>
        /\ IsOk(row_call.ret)
        /\ Len(row_call.row) = 36 + 10 * Len(build.category_ids)
        /\ \A k \in 1..Len(build.category_ids) :
              InCategory(build.category_ids[k]) = {} =>
                  \A j \in 1..10 : BlockField(k, j) = IntVal(0)

\* a row with an absent category between two present ones
C6_Witness ==
    /\ Returned
    /\ IsOk(row_call.ret)
    /\ build.category_ids = <<1, 2, 3>>
    /\ InCategory(2) = {}
    /\ InCategory(1) # {}
    /\ InCategory(3) # {}

\* C7: in every row each Highest_ value is >= the Lowest_ value of the same statistic
\* and the CategoryOf_ fields name categories with an annotation in the image.
C7_HighestAboveLowest ==
    (Returned /\ IsOk(row_call.ret)) =>
        \A j \in 1..6 :
            /\ ~Less(row_call.row[12 + j], row_call.row[18 + j])
            /\ row_call.row[24 + j][2] \in NonemptyIds
            /\ row_call.row[30 + j][2] \in NonemptyIds

\* a row where the highest and lowest total area differ and the first category is
\* not the one with the highest
C7_Witness ==
    /\ Returned
    /\ IsOk(row_call.ret)
    /\ Cardinality(NonemptyIds) >= 2
    /\ Less(row_call.row[20], row_call.row[14])
    /\ row_call.row[26][2] # build.category_ids[1]

\* the six statistics of a category, from its annotations
AreasIn(c) == areas_of(SelectSeq(row_call.annotations, LAMBDA a : a.category_id = c))

OwnStat(j, c) ==
    CASE j = 1 -> IntVal(Cardinality(InCategory(c)))
      [] j = 2 -> np_sum(AreasIn(c))
      [] j = 3 -> np_min(AreasIn(c))
      [] j = 4 -> np_mean(AreasIn(c))
      [] j = 5 -> np_max(AreasIn(c))
      [] j = 6 -> np_std(AreasIn(c))

\* C8: Highest_X is the maximum of X over the nonempty categories and
\* CategoryOf_Highest_X the smallest category id attaining it; likewise Lowest_X
\* and CategoryOf_Lowest_X with the minimum.
C8_ExtremaAndTieBreak ==
    (Returned /\ IsOk(row_call.ret)) =>
        \A j \in 1..6 :
            LET hi == row_call.row[12 + j]
                lo == row_call.row[18 + j]
            IN  /\ \E c \in NonemptyIds : OwnStat(j, c) = hi
                /\ \A c \in NonemptyIds : ~Less(hi, OwnStat(j, c))
                /\ \E c \in NonemptyIds : OwnStat(j, c) = lo
                /\ \A c \in NonemptyIds : ~Less(OwnStat(j, c), lo)
                /\ OwnStat(j, row_call.row[24 + j][2]) = hi
                /\ \A c \in NonemptyIds : OwnStat(j, c) = hi => row_call.row[24 + j][2] <= c
                /\ OwnStat(j, row_call.row[30 + j][2]) = lo
                /\ \A c \in NonemptyIds : OwnStat(j, c) = lo => row_call.row[30 + j][2] <= c

\* two categories tie on the mean area and differ on the count, and the categories
\* were given in descending order
C8_Witness ==
    /\ Returned
    /\ IsOk(row_call.ret)
    /\ NonemptyIds = {1, 2}
    /\ OwnStat(4, 1) = OwnStat(4, 2)
    /\ OwnStat(1, 1) # OwnStat(1, 2)
    /\ row_call.row[28] = IntVal(1)
    /\ row_call.row[34] = IntVal(1)

StatIndex(word) ==
    CASE word = "NumInstances" -> 1 [] word = "TotalArea" -> 2 [] word = "MinArea" -> 3
      [] word = "MeanArea" -> 4 [] word = "MaxArea" -> 5 [] word = "StdevArea" -> 6

\* the smallest (largest) of a non-empty set of numbers of one kind
Lowest(vals) == CHOOSE v \in vals : \A w \in vals : ~Less(w, v)
Highest(vals) == CHOOSE v \in vals : \A w \in vals : ~Less(v, w)
SmallestId(ids) == CHOOSE c \in ids : \A d \in ids : c <= d

\* the statistic a column name stands for (the docstring of create_index.py), for
\* the image of the call
NamedStat(name) ==
    LET A == row_call.annotations
        own(j) == {OwnStat(j, c) : c \in NonemptyIds}
    IN  CASE name = <<"ImageID">> -> StrVal(splitext_root(row_call.filename))
          [] name = <<"NumInstances">> -> IntVal(N)
          [] name = <<"NumCategories">> -> IntVal(Cardinality(NonemptyIds))
          [] name = <<"TotalArea">> -> np_sum(areas_of(A))
          [] name = <<"MinArea">> -> np_min(areas_of(A))
          [] name = <<"MeanArea">> -> np_mean(areas_of(A))
          [] name = <<"MaxArea">> -> np_max(areas_of(A))
          [] name = <<"StdevArea">> -> np_std(areas_of(A))
          [] name = <<"MeanX">> -> np_mean(xs_of(A))
          [] name = <<"MeanY">> -> np_mean(ys_of(A))
          [] name = <<"StdevX">> -> np_std(xs_of(A))
          [] name = <<"StdevY">> -> np_std(ys_of(A))
          [] name[1] = "Highest" -> Highest(own(StatIndex(name[3])))
          [] name[1] = "Lowest" -> Lowest(own(StatIndex(name[3])))
          [] name[1] = "CategoryOf" /\ name[3] = "Highest" ->
                LET j == StatIndex(name[5])
                IN  IntVal(SmallestId({c \in NonemptyIds : OwnStat(j, c) = Highest(own(j))}))
          [] name[1] = "CategoryOf" /\ name[3] = "Lowest" ->
                LET j == StatIndex(name[5])
                IN  IntVal(SmallestId({c \in NonemptyIds : OwnStat(j, c) = Lowest(own(j))}))
          [] OTHER ->
                LET c == ParseInt(SubSeq(name, 3, Len(name)))
                    Ac == SelectSeq(A, LAMBDA a : a.category_id = c)
                IN  IF Ac = <<>> THEN IntVal(0)
                    ELSE CASE name[1] \in {"MeanX", "MeanY"} ->
                                np_mean(IF name[1] = "MeanX" THEN xs_of(Ac) ELSE ys_of(Ac))
                           [] name[1] \in {"StdevX", "StdevY"} ->
                                np_std(IF name[1] = "StdevX" THEN xs_of(Ac) ELSE ys_of(Ac))
                           [] OTHER -> OwnStat(StatIndex(name[1]), c)

\* header and row have 36 + 10*|C| fields and each field of the row is the text of
\* the statistic its header column names
HeaderMatchesRow ==
    LET columns == Split(build.header, build.sep)
        fields == Split(row_call.ret[2], build.sep)
    IN  /\ Len(columns) = 36 + 10 * Len(build.category_ids)
        /\ Len(fields) = Len(columns)
        /\ \A k \in 1..Len(columns) : fields[k] = StrValue(NamedStat(columns[k]))

\* sep occurs in the text of the image identifier
SepInImageID ==
    \E k \in 1..Len(splitext_root(row_call.filename)) :
        splitext_root(row_call.filename)[k] = build.sep

C14_EmptyImageRaises ==
    /\ (Returned /\ (N = 0 \/ NonemptyIds = {})) =>
          /\ row_call.ret = Raise("ValueError")
          /\ row_call.row = <<>>
    /\ (Returned /\ IsOk(row_call.ret)) =>
          /\ \A k \in 1..Len(row_call.ret[2]) : row_call.ret[2][k] # "nan"
          /\ \A k \in 2..Len(row_call.row) :
                row_call.row[k][1] \in {"f", "r"} => row_call.row[k][3] # 0

\* an image with annotations, none of a known category, although categories are known
C14_Witness ==
    /\ Returned
    /\ N >= 2
    /\ build.category_ids # <<>>
    /\ NonemptyIds = {}
    /\ row_call.ret = Raise("ValueError")

\* an image without annotations
C14_WitnessEmpty ==
    /\ Returned
    /\ N = 0
    /\ build.category_ids # <<>>
    /\ row_call.ret = Raise("ValueError")

-----------------------------------------------------------------------------
(* index.py: COCOIndex.load, pd.read_csv(path) with its default separator  *)
(* ",". The first line names the columns; a column whose cells are all     *)
(* texts of digits becomes integers, any other column is left as text (a   *)
(* float column too: the claims read no float). Every line must have as    *)
(* many fields as the first.                                               *)

read_csv(lines) ==
    LET columns == Split(lines[1], ",")
        raw == [r \in 1..(Len(lines) - 1) |-> Split(lines[r + 1], ",")]
        is_int(c) == raw # <<>> /\ \A r \in 1..Len(raw) : IsDigits(raw[r][c])
    IN  [columns |-> columns,
         rows |-> [r \in 1..Len(raw) |->
                    [c \in 1..Len(columns) |->
                        IF is_int(c) THEN IntCell(ParseInt(raw[r][c]))
                        ELSE StrCell(raw[r][c])]]]

-----------------------------------------------------------------------------
(* create_index.py: create_index_sequentially and                          *)
(* create_index_multiprocessing, run one after the other on the same       *)
(* arguments, each writing its own file; then a COCOIndex is loaded from a *)
(* completed file. A file is the sequence of the lines written to it.      *)

BuildFileNames == { <<"a", ".", "jpg">>, <<"a", ".", "png">>, <<"7", ".", "jpg">> }

BuildCategoryLists == { <<[id |-> 2], [id |-> 1]>>, <<[id |-> 1]>> }

Ann(c, area, x, y) == [category_id |-> c, area |-> area, bbox |-> <<x, y, 1, 1>>]

\* the annotation lists of an image: none, one category, two categories, and a
\* category that may be unknown
BuildAnnotationLists ==
    { <<>>, <<Ann(1, 3, 1, 4)>>, <<Ann(2, 1, 0, 0), Ann(1, 1, 0, 0), Ann(2, 3, 1, 4)>>,
      <<Ann(2, 3, 1, 4)>> }

\* annotations_by_filename: a dict, its items in insertion order
Mappings ==
    {m \in SeqsUpTo([filename : BuildFileNames, annotations : BuildAnnotationLists], MaxImages) :
        \A i, j \in 1..Len(m) : i # j => m[i].filename # m[j].filename}

ids_of(categories) == [k \in DOMAIN categories |-> categories[k].id]

InitBuild ==
    /\ index = NoIndex
    /\ call = NoCall
    /\ build = NoBuild
    /\ row_call = NoRowCall
    /\ input \in [categories : BuildCategoryLists, annotations_by_filename : Mappings, sep : Seps]
    /\ seq = [pc |-> "start"]
    /\ par = NoRun
    /\ loaded = NoIndex
    /\ cli = NoMain

Finished(run) == run.pc \in {"done", "failed"}

\* lines 256-260: the ids are sorted, the file opened and the header written
SeqStart ==
    /\ seq.pc = "start"
    /\ LET category_ids == sorted(ids_of(input.categories))
       IN  seq' = [pc |-> "loop", category_ids |-> category_ids, i |-> 1,
                   file |-> <<create_header_row(category_ids, input.sep)>>]
    /\ UNCHANGED <<idxVars, rowVars, input, par, cli>>

\* lines 262-265: one iteration of the loop; an exception of create_index_row
\* leaves the function
SeqRow ==
    /\ seq.pc = "loop"
    /\ seq.i <= Len(input.annotations_by_filename)
    /\ LET item == input.annotations_by_filename[seq.i]
           row == create_index_row(seq.category_ids, item.filename, item.annotations, input.sep)
       IN  seq' = IF IsOk(row)
                  THEN [seq EXCEPT !.file = Append(@, row[2]), !.i = @ + 1]
                  ELSE [seq EXCEPT !.pc = "failed"]
    /\ UNCHANGED <<idxVars, rowVars, input, par, cli>>

\* the loop is over and the file closed
SeqEnd ==
    /\ seq.pc = "loop"
    /\ seq.i > Len(input.annotations_by_filename)
    /\ seq' = [seq EXCEPT !.pc = "done"]
    /\ UNCHANGED <<idxVars, rowVars, input, par, cli>>

\* mutant: the jobs leave sep to create_index_row's default
jobs_of_DefaultSep(category_ids, annotations_by_filename, sep) ==
    [k \in 1..Len(annotations_by_filename) |->
        [category_ids |-> category_ids, filename |-> annotations_by_filename[k].filename,
         annotations |-> annotations_by_filename[k].annotations, sep |-> ","]]

\* lines 292-293: jobs = [(category_ids, filename, annotations, sep) for ...]
jobs_of(category_ids, annotations_by_filename, sep) ==
    [k \in 1..Len(annotations_by_filename) |->
        [category_ids |-> category_ids, filename |-> annotations_by_filename[k].filename,
         annotations |-> annotations_by_filename[k].annotations, sep |-> sep]]

\* mutant: the worker catches the exception and returns an empty line
wrapped_create_index_row_Swallow(args) ==
    LET r == create_index_row(args.category_ids, args.filename, args.annotations, args.sep)
    IN  IF IsOk(r) THEN r ELSE Ok(<<>>)

wrapped_create_index_row(args) ==
    create_index_row(args.category_ids, args.filename, args.annotations, args.sep)

\* lines 285-294: the ids are sorted, the header written, the pool made and the jobs
\* handed to pool.imap; `status` is each task's place (queued, running, done),
\* `results` what the tasks returned, `finished` the order they completed in and
\* `next` the index the imap iterator yields next
ParStart ==
    /\ Finished(seq)
    /\ par.pc = "none"
    /\ LET category_ids == sorted(ids_of(input.categories))
           jobs == jobs_of(category_ids, input.annotations_by_filename, input.sep)
       IN  par' = [pc |-> "imap", category_ids |-> category_ids, jobs |-> jobs,
                   status |-> [k \in 1..Len(jobs) |-> "queued"],
                   results |-> [k \in 1..Len(jobs) |-> Raise("pending")],
                   finished |-> <<>>, next |-> 1,
                   file |-> <<create_header_row(category_ids, input.sep)>>]
    /\ UNCHANGED <<idxVars, rowVars, input, seq, cli>>

\* an idle worker takes the first task of the queue
WorkerTake ==
    /\ par.pc = "imap"
    /\ Cardinality({k \in DOMAIN par.status : par.status[k] = "running"}) < NumWorkers
    /\ \E k \in DOMAIN par.status :
          /\ par.status[k] = "queued"
          /\ \A h \in 1..(k - 1) : par.status[h] # "queued"
          /\ par' = [par EXCEPT !.status[k] = "running"]
    /\ UNCHANGED <<idxVars, rowVars, input, seq, cli>>

\* a worker completes its task: the row, or the exception, is sent back
WorkerFinish ==
    /\ par.pc = "imap"
    /\ \E k \in DOMAIN par.status :
          /\ par.status[k] = "running"
          /\ par' = [par EXCEPT !.status[k] = "done",
                                !.results[k] = wrapped_create_index_row(par.jobs[k]),
                                !.finished = Append(@, k)]
    /\ UNCHANGED <<idxVars, rowVars, input, seq, cli>>

\* lines 294-296: the imap iterator yields the results in the order of the jobs; the
\* row is written, or the task's exception raised, which ends the pool
MainNext ==
    /\ par.pc = "imap"
    /\ par.next <= Len(par.jobs)
    /\ par.status[par.next] = "done"
    /\ par' = IF IsOk(par.results[par.next])
              THEN [par EXCEPT !.file = Append(@, par.results[par.next][2]), !.next = @ + 1]
              ELSE [par EXCEPT !.pc = "failed"]
    /\ UNCHANGED <<idxVars, rowVars, input, seq, cli>>

\* every result was written: pool and file are closed
ParEnd ==
    /\ par.pc = "imap"
    /\ par.next > Len(par.jobs)
    /\ par' = [par EXCEPT !.pc = "done"]
    /\ UNCHANGED <<idxVars, rowVars, input, seq, cli>>

\* COCOIndex(path) on a file a build completed
Load ==
    /\ Finished(seq)
    /\ Finished(par)
    /\ call = NoCall
    /\ \E path \in {"seq", "par"} :
          LET run == IF path = "seq" THEN seq ELSE par
          IN  /\ run.pc = "done"
              /\ index' = read_csv(run.file)
              /\ loaded' = index'
              /\ call' = [op |-> "load", args |-> <<path>>, before |-> index, ret |-> Ok(<<>>)]
    /\ UNCHANGED <<rowVars, buildVars>>

NextBuild ==
    \/ SeqStart
    \/ SeqRow
    \/ SeqEnd
    \/ ParStart
    \/ WorkerTake
    \/ WorkerFinish
    \/ MainNext
    \/ ParEnd
    \/ Load
    \/ GetImages
    \/ GetClasses
    \/ Return

SpecBuild == InitBuild /\ [][NextBuild]_vars

-----------------------------------------------------------------------------
(* Claims about the builder, checked under SpecBuild *)

Images == input.annotations_by_filename

\* the rows of a file as a bag
RECURSIVE BagOfLines(_)
BagOfLines(lines) ==
    IF lines = <<>> THEN EmptyBag ELSE SetToBag({Head(lines)}) (+) BagOfLines(Tail(lines))

\* C10: for the same arguments the two strategies write the same header line and
\* the same multiset of row lines, whatever the order the workers run and
\* complete in.
C10_SameHeaderAndRows ==
    (Finished(seq) /\ Finished(par)) =>
        /\ Head(seq.file) = Head(par.file)
        /\ BagOfLines(Tail(seq.file)) = BagOfLines(Tail(par.file))

\* both strategies completed a build of two images with the separator ";", and the
\* second task completed before the first
C10_Witness ==
    /\ seq.pc = "done"
    /\ par.pc = "done"
    /\ input.sep = ";"
    /\ Len(par.file) = 3
    /\ par.finished = <<2, 1>>

\* the row of the loaded table for an image identifier
RowsOf(id) == {r \in 1..Len(index.rows) : ImageIDOf(index, r) = StrCell(id)}

\* C4 as stated: for any categories, any mapping in which every image has at least
\* one annotation and any separator, a table written by the builder and reloaded
\* by COCOIndex has get_images() equal to the set of the file names without their
\* extensions and, for every image and category, the NumInstances_<c> the builder
\* computed.
C4_RoundTrip ==
    (call.op = "load" /\ \A k \in 1..Len(Images) : Images[k].annotations # <<>>) =>
        /\ get_images(index) = Ok({StrCell(splitext_root(Images[k].filename)) :
                                    k \in 1..Len(Images)})
        /\ \A k \in 1..Len(Images) : \A c \in 1..Len(seq.category_ids) :
              \A r \in RowsOf(splitext_root(Images[k].filename)) :
                  /\ HasColumn(index, NumInstancesColumn(seq.category_ids[c]))
                  /\ Count(index, r, seq.category_ids[c]) =
                        Len(annotations_by_cid(Images[k].annotations, seq.category_ids[c]))

\* the row of the k-th image of the mapping, or the exception of its computation
RowOf(k) ==
    create_index_row(sorted(ids_of(input.categories)), Images[k].filename,
                     Images[k].annotations, input.sep)

Failing == {k \in 1..Len(Images) : ~IsOk(RowOf(k))}

FirstFailing == CHOOSE k \in Failing : \A h \in Failing : k <= h

\* the file a failed build leaves: the header and the rows of the images before the
\* first failing one
PartialFile ==
    <<create_header_row(sorted(ids_of(input.categories)), input.sep)>>
        \o [k \in 1..(FirstFailing - 1) |-> RowOf(k)[2]]

\* C16: when the row computation of some image fails, the sequential and the
\* parallel strategy both end with that error, and the file holds the header and
\* exactly the rows of the images before the first failing one, in order.
C16_FailFast ==
    /\ (Finished(seq) /\ Failing # {}) => (seq.pc = "failed" /\ seq.file = PartialFile)
    /\ (Finished(par) /\ Failing # {}) => (par.pc = "failed" /\ par.file = PartialFile)
    /\ (Finished(seq) /\ Failing = {}) => seq.pc = "done"
    /\ (Finished(par) /\ Failing = {}) => par.pc = "done"

\* the first of two images fails; in the pool the second, whose row is computed
\* without error, completed first, and neither strategy wrote its row
C16_Witness ==
    /\ seq.pc = "failed"
    /\ par.pc = "failed"
    /\ Len(Images) = 2
    /\ Failing = {1}
    /\ par.finished = <<2, 1>>
    /\ par.file = PartialFile
    /\ Len(par.file) = 1

\* the second of two images fails and the row of the first is in both files
C16_WitnessSecond ==
    /\ seq.pc = "failed"
    /\ par.pc = "failed"
    /\ Failing = {2}
    /\ Len(seq.file) = 2
    /\ Len(par.file) = 2

\* the ImageID field of a line of a file written with the separator of the build
LineImageID(line) == Split(line, input.sep)[1]

DistinctImageIDs(file) ==
    \A i, j \in 2..Len(file) : i # j => LineImageID(file[i]) # LineImageID(file[j])

\* C17 as stated: a table the builder completed has one row per entry of the
\* mapping and no two rows with the same ImageID, for any distinct file names.
C17_OneRowPerImage ==
    /\ seq.pc = "done" => (Len(seq.file) = 1 + Len(Images) /\ DistinctImageIDs(seq.file))
    /\ par.pc = "done" => (Len(par.file) = 1 + Len(Images) /\ DistinctImageIDs(par.file))

\* the category ids of the build
CategoryIdSet == {input.categories[k].id : k \in 1..Len(input.categories)}

\* C11 as stated: on any table written by the builder for the category ids C,
\* get_classes() returns exactly the set of the ids of C.
C11_ClassesAreCategories ==
    (call.op = "get_classes" /\ index # NoIndex) => call.ret = Ok(CategoryIdSet)

\* C13 as stated: get_images() and get_classes() on an index whose table is unloaded
\* (load=False, never assigned) or has no rows return the empty set and do not raise.
C13_EmptySetsNoError ==
    (call.op \in {"get_images", "get_classes"} /\ index.rows = <<>>) => call.ret = Ok({})

-----------------------------------------------------------------------------
(* create_index.py and split_annotations.py: main, the command-line entry  *)
(* points. A run has its arguments, the adapter it chose, the exception it *)
(* ended with, whether the source file was read, and the output path's     *)
(* place in the file system: "absent", a "dir" or a "file" (`before` is    *)
(* what it was when the run started).                                       *)

Programs == {"create_index", "split_annotations"}

\* --dataset: not given (None) or one of its choices
DatasetChoices == {"None", "mapillary", "isaid"}

Paths ==
    { <<"data", "/", "coco", ".", "json">>,
      <<"Mapillary", "/", "v1", ".", "json">>,
      <<"iSAID", "_", "train", ".", "json">>,
      <<"isaid", "/", "MAPILLARY", ".", "json">> }

OutputKinds == {"absent", "dir", "file"}

\* str.lower(), token by token
LowerToken(t) ==
    CASE t = "Mapillary" -> "mapillary"
      [] t = "MAPILLARY" -> "mapillary"
      [] t = "iSAID" -> "isaid"
      [] OTHER -> t

lower(path) == [k \in 1..Len(path) |-> LowerToken(path[k])]

\* word in text
Contains(text, word) == \E k \in 1..Len(text) : text[k] = word

\* the if / elif chain that chooses annotations_fn
annotations_fn_of(dataset, path) ==
    IF dataset = "mapillary" THEN Ok("mapillary_annotations")
    ELSE IF dataset = "isaid" THEN Ok("isaid_annotations")
    ELSE IF Contains(lower(path), "mapillary") THEN Ok("mapillary_annotations")
    ELSE IF Contains(lower(path), "isaid") THEN Ok("isaid_annotations")
    ELSE Raise("ValueError: Unknown annotations style")

InitMain ==
    /\ index = NoIndex
    /\ call = NoCall
    /\ build = NoBuild
    /\ row_call = NoRowCall
    /\ input = NoInput
    /\ seq = NoRun
    /\ par = NoRun
    /\ loaded = NoIndex
    /\ \E prog \in Programs, dataset \in DatasetChoices, path \in Paths, kind \in OutputKinds :
          cli = [pc |-> IF prog = "split_annotations" THEN "makedirs" ELSE "select",
                 prog |-> prog, dataset |-> dataset, path |-> path,
                 annotations_fn |-> "None", error |-> "None", read |-> FALSE,
                 before |-> kind, output |-> kind]

\* split_annotations.py line 80: os.makedirs(args.output_dir, exist_ok=True)
MakeDirs ==
    /\ cli.pc = "makedirs"
    /\ cli' = IF cli.output = "file"
              THEN [cli EXCEPT !.pc = "failed", !.error = "FileExistsError"]
              ELSE [cli EXCEPT !.pc = "select", !.output = "dir"]
    /\ UNCHANGED <<idxVars, rowVars, input, seq, par>>

\* the adapter is chosen, or ValueError raised
SelectAnnotationsFn ==
    /\ cli.pc = "select"
    /\ LET fn == annotations_fn_of(cli.dataset, cli.path)
       IN  cli' = IF IsOk(fn)
                  THEN [cli EXCEPT !.pc = "load", !.annotations_fn = fn[2]]
                  ELSE [cli EXCEPT !.pc = "failed", !.error = fn[2]]
    /\ UNCHANGED <<idxVars, rowVars, input, seq, par>>

\* categories, annotations_by_filename = annotations_fn(args.path): the source is read
LoadAnnotations ==
    /\ cli.pc = "load"
    /\ cli' = [cli EXCEPT !.pc = "work", !.read = TRUE]
    /\ UNCHANGED <<idxVars, rowVars, input, seq, par>>

\* create_index.py line 322: create_index_multiprocessing opens the output for
\* writing, which makes the file (a directory cannot be opened)
CreateIndex ==
    /\ cli.pc = "work"
    /\ cli.prog = "create_index"
    /\ cli' = IF cli.output = "dir"
              THEN [cli EXCEPT !.pc = "failed", !.error = "IsADirectoryError"]
              ELSE [cli EXCEPT !.pc = "done", !.output = "file"]
    /\ UNCHANGED <<idxVars, rowVars, input, seq, par>>

\* split_annotations.py line 95: split_multiprocessing writes into the directory
SplitAnnotations ==
    /\ cli.pc = "work"
    /\ cli.prog = "split_annotations"
    /\ cli' = [cli EXCEPT !.pc = "done"]
    /\ UNCHANGED <<idxVars, rowVars, input, seq, par>>

NextMain ==
    \/ MakeDirs
    \/ SelectAnnotationsFn
    \/ LoadAnnotations
    \/ CreateIndex
    \/ SplitAnnotations

SpecMain == InitMain /\ [][NextMain]_vars

-----------------------------------------------------------------------------
(* Claims about the entry points, checked under SpecMain *)

PathIsUnknown ==
    /\ ~Contains(lower(cli.path), "mapillary")
    /\ ~Contains(lower(cli.path), "isaid")

\* C12 as stated: in both entry points a run with no --dataset and a path naming
\* neither dataset fails with the unknown-annotations-style error before any work:
\* the source is not read and no output file or directory is made; and a given
\* --dataset is the adapter chosen, whatever the path.
C12_UnknownStyleBeforeWork ==
    /\ (cli.dataset = "None" /\ PathIsUnknown) =>
          /\ cli.pc \in {"makedirs", "select", "failed"}
          /\ cli.pc = "failed" => cli.error = "ValueError: Unknown annotations style"
          /\ ~cli.read
          /\ cli.output = cli.before
    /\ (cli.dataset # "None" /\ cli.annotations_fn # "None") =>
          cli.annotations_fn = IF cli.dataset = "mapillary" THEN "mapillary_annotations"
                               ELSE "isaid_annotations"

=============================================================================
